---- MODULE Spec2Model ----
(***************************************************************************)
(* Model of cursor_prompt_logger.py: discovery of the editor's stores,     *)
(* extraction of the prompt records stored under 'aiService.prompts',      *)
(* ordering and rendering of the report.                                   *)
(*                                                                         *)
(* Encoding of values.  A string is the sequence of its code points.  A    *)
(* decoded JSON value is a record [t |-> type, v |-> sequence of naturals]:*)
(*   t = "absent" : the key is not in the mapping       v = << >>          *)
(*   t = "null"   : JSON null  (Python None)            v = << >>          *)
(*   t = "bool"   : JSON true/false (Python bool)       v = <<1>> / <<0>>  *)
(*   t = "int"    : JSON integer (Python int)           v = <<n>>          *)
(*   t = "str"    : JSON string (Python str)            v = code points    *)
(***************************************************************************)
EXTENDS Integers, Sequences, FiniteSets, TLC

\* ------------------------------------------------------------------ bounds
MaxElems == 3      \* longest stored array
MaxClock == 1      \* capture clock readings are 0..MaxClock
MaxRows  == 2      \* most rows stored under the key on the whole disk
MaxItems == 2      \* most array elements stored on the whole disk

\* ------------------------------------------------------- strings and values
Absent      == [t |-> "absent", v |-> << >>]
JNull       == [t |-> "null",   v |-> << >>]
JBool(b)    == [t |-> "bool",   v |-> <<IF b THEN 1 ELSE 0>>]
JInt(n)     == [t |-> "int",    v |-> <<n>>]
JStr(s)     == [t |-> "str",    v |-> s]

\* "chat", "completion", ... spelled as code points
s_chat       == <<99, 104, 97, 116>>
s_completion == <<99, 111, 109, 112, 108, 101, 116, 105, 111, 110>>
s_insert     == <<105, 110, 115, 101, 114, 116>>
s_edit       == <<101, 100, 105, 116>>
s_delete     == <<100, 101, 108, 101, 116, 101>>
s_format     == <<102, 111, 114, 109, 97, 116>>
s_explain    == <<101, 120, 112, 108, 97, 105, 110>>
s_test       == <<116, 101, 115, 116>>
s_fix        == <<102, 105, 120>>
s_optimize   == <<111, 112, 116, 105, 109, 105, 122, 101>>
s_unknown    == <<117, 110, 107, 110, 111, 119, 110>>
s_custom     == <<99, 117, 115, 116, 111, 109>>

COMMAND_TYPES ==
    [n \in 1..10 |->
        CASE n = 1 -> s_chat    [] n = 2 -> s_completion [] n = 3 -> s_insert
          [] n = 4 -> s_edit    [] n = 5 -> s_delete     [] n = 6 -> s_format
          [] n = 7 -> s_explain [] n = 8 -> s_test       [] n = 9 -> s_fix
          [] n = 10 -> s_optimize]

\* str.isspace for the code points of the model (tab, LF, VT, FF, CR, space)
isspace(c) == c \in {9, 10, 11, 12, 13, 32}

RECURSIVE lstrip(_)
lstrip(s) == IF s # << >> /\ isspace(Head(s)) THEN lstrip(Tail(s)) ELSE s

RECURSIVE rstrip(_)
rstrip(s) ==
    IF s # << >> /\ isspace(s[Len(s)]) THEN rstrip(SubSeq(s, 1, Len(s) - 1)) ELSE s

\* str.strip()
strip(s) == rstrip(lstrip(s))

\* isinstance(x, int): Python's bool is a subclass of int
isinstance_int(x) == x.t \in {"int", "bool"}

\* the integer a Python int or bool hashes and compares as (True == 1)
int_value(x) == x.v[1]

\* `x in COMMAND_TYPES` for an x that passed isinstance(x, int)
in_COMMAND_TYPES(x) == int_value(x) \in DOMAIN COMMAND_TYPES

\* lines 144-146: prompt.get('commandType', 'unknown') and the table lookup
resolve_command_type(prompt) ==
    LET command_type == IF prompt.commandType.t = "absent"
                        THEN JStr(s_unknown) ELSE prompt.commandType
    IN  IF isinstance_int(command_type) /\ in_COMMAND_TYPES(command_type)
        THEN JStr(COMMAND_TYPES[int_value(command_type)])
        ELSE command_type

\* datetime.datetime.now().isoformat(): fixed-width, zero-padded digits
isoformat(c) == <<48 + (c \div 10), 48 + (c % 10)>>

\* ------------------------------------------------------------ stored values
\* An array element: obj = FALSE is a non-object entry (string, number, null)
NonObject == [obj |-> FALSE, text |-> Absent, commandType |-> Absent, timestamp |-> Absent]
Prompt(tx, ct, ts) == [obj |-> TRUE, text |-> tx, commandType |-> ct, timestamp |-> ts]

\* a row's value column: its SQLite storage class and, for TEXT, what the
\* text is: not JSON, a JSON document that is not an array, or an array
SqlNull      == [sql |-> "NULL",    doc |-> "none",    items |-> << >>]
SqlInteger   == [sql |-> "INTEGER", doc |-> "none",    items |-> << >>]
NotJson      == [sql |-> "TEXT",    doc |-> "invalid", items |-> << >>]
JsonObject   == [sql |-> "TEXT",    doc |-> "object",  items |-> << >>]
JsonArray(a) == [sql |-> "TEXT",    doc |-> "array",   items |-> a]

\* json.loads(value): TypeError for a value that is not str/bytes,
\* JSONDecodeError for text that is not JSON, else the decoded document
json_loads(value) ==
    IF value.sql # "TEXT" THEN [exc |-> "TypeError", data |-> value]
    ELSE IF value.doc = "invalid" THEN [exc |-> "JSONDecodeError", data |-> value]
    ELSE [exc |-> "none", data |-> value]

\* lines 151-156: the record built for one element; raw_data is the element
\* object itself, identified by where it sits (pass, row, index)
make_record(prompt, now, id, k) ==
    [content      |-> prompt.text,
     command_type |-> resolve_command_type(prompt),
     timestamp    |-> IF prompt.timestamp.t = "absent"
                      THEN JStr(isoformat(now)) ELSE prompt.timestamp,
     raw_data     |-> [id |-> id \o <<k>>, obj |-> prompt]]

\* the loop with the test of line 143 made on the text as it is, not stripped
RECURSIVE extract_loop_unstripped(_, _, _, _)
extract_loop_unstripped(items, k, nows, id) ==
    IF k = 0 THEN [exc |-> "none", prompts |-> << >>]
    ELSE LET prompt == items[k]
             rest   == extract_loop_unstripped(items, k - 1, nows, id)
         IN  IF prompt.obj /\ prompt.text.t # "absent"
             THEN IF prompt.text.t # "str"
                  THEN [exc |-> "AttributeError", prompts |-> << >>]
                  ELSE IF prompt.text.v # << >>
                       THEN IF rest.exc # "none" THEN rest
                            ELSE [exc |-> "none",
                                  prompts |-> <<make_record(prompt, nows[k], id, k)>>
                                              \o rest.prompts]
                       ELSE rest
             ELSE rest

\* lines 141-156: the loop over reversed(prompts_data), from index k down to
\* 1; nows[j] is the clock reading taken while element j is processed
RECURSIVE extract_loop(_, _, _, _)
extract_loop(items, k, nows, id) ==
    IF k = 0 THEN [exc |-> "none", prompts |-> << >>]
    ELSE LET prompt == items[k]
             rest   == extract_loop(items, k - 1, nows, id)
         IN  IF prompt.obj /\ prompt.text.t # "absent"
             THEN IF prompt.text.t # "str"
                  THEN [exc |-> "AttributeError", prompts |-> << >>]
                  ELSE IF strip(prompt.text.v) # << >>
                       THEN IF rest.exc # "none" THEN rest
                            ELSE [exc |-> "none",
                                  prompts |-> <<make_record(prompt, nows[k], id, k)>>
                                              \o rest.prompts]
                       ELSE rest
             ELSE rest

\* lines 133-160
extract_prompts_from_value(value, nows, id) ==
    LET loaded == json_loads(value)
    IN  IF loaded.exc = "JSONDecodeError" THEN [exc |-> "none", prompts |-> << >>]
        ELSE IF loaded.exc # "none" THEN [exc |-> loaded.exc, prompts |-> << >>]
        ELSE IF loaded.data.doc # "array" THEN [exc |-> "none", prompts |-> << >>]
        ELSE extract_loop(loaded.data.items, Len(loaded.data.items), nows, id)

\* ------------------------------------------------------------ the filesystem
\* A path is the sequence of its components.
home == <<"home">>

\* lines 33-38
common_paths ==
    << <<"Cursor", "User", "workspaceStorage">>,
       <<"Cursor", "User", "globalStorage">>,
       <<"Cursor", "Storage">>,
       <<"Cursor", "User", "state.vscdb">> >>

\* lines 40-59
base_paths(sys) ==
    CASE sys = "Darwin"  -> << home \o <<"Library", "Application Support">>,
                               home \o <<"Library", "Caches">>,
                               home \o <<"Library", "Preferences">> >>
      [] sys = "Windows" -> << home \o <<"AppData", "Roaming">>,
                               home \o <<"AppData", "Local">>,
                               home \o <<"AppData", "LocalLow">> >>
      [] sys = "Linux"   -> << home \o <<".config">>,
                               home \o <<".local", "share">>,
                               home \o <<".cache">> >>
      [] OTHER           -> << home >>

IsPrefix(p, q) == Len(p) <= Len(q) /\ SubSeq(q, 1, Len(p)) = p

\* Path.exists(): a file of the filesystem, or a directory one of them is in
exists(fs, p) == \E f \in fs : IsPrefix(p, f)

\* Path.is_file()
is_file(fs, p) == p \in fs

\* the suffix of a file name after its last dot, for the names of the model
suffix(name) ==
    CASE name \in {"state.vscdb"} -> ".vscdb"
      [] name \in {"x.db"}        -> ".db"
      [] name \in {"notes.txt"}   -> ".txt"
      [] OTHER                    -> ""

\* line 86: file.endswith('.vscdb') or file.endswith('.db')
is_db_name(name) == suffix(name) = ".vscdb" \/ suffix(name) = ".db"

\* lines 84-86: the files os.walk(base_path) visits that pass the name test
walk_db_files(fs, base_path) ==
    {f \in fs : IsPrefix(base_path, f) /\ f # base_path /\ is_db_name(f[Len(f)])}

\* lines 62-66: the loop over base_paths x common_paths, from position n on
RECURSIVE default_paths(_, _, _)
default_paths(fs, sys, n) ==
    LET nb == Len(base_paths(sys))
        nc == Len(common_paths)
    IN  IF n > nb * nc THEN << >>
        ELSE LET base   == base_paths(sys)[((n - 1) \div nc) + 1]
                 common == common_paths[((n - 1) % nc) + 1]
                 path   == base \o common
             IN  (IF exists(fs, path) THEN <<path>> ELSE << >>)
                 \o default_paths(fs, sys, n + 1)

\* lines 26-75; custom is the value of CURSOR_STORAGE_PATH, << >> when unset
get_cursor_storage_paths(fs, sys, custom) ==
    default_paths(fs, sys, 1)
    \o (IF custom # << >> /\ exists(fs, custom) THEN <<custom>> ELSE << >>)

\* ------------------------------------------------------- ordering, rendering
\* Python's < on two str: code point by code point, a proper prefix is less
RECURSIVE str_lt(_, _)
str_lt(a, b) ==
    IF b = << >> THEN FALSE
    ELSE IF a = << >> THEN TRUE
    ELSE IF Head(a) # Head(b) THEN Head(a) < Head(b)
    ELSE str_lt(Tail(a), Tail(b))

\* whether Python's < is defined on the two values (str with str, int with int)
comparable(x, y) == x.t = y.t /\ x.t \in {"str", "int"}

\* x < y for two comparable values
py_lt(x, y) == IF x.t = "str" THEN str_lt(x.v, y.v) ELSE x.v[1] < y.v[1]

\* list.sort raises TypeError when it compares two keys < is not defined on
sort_raises(prompts) ==
    \E i, j \in 1..Len(prompts) :
        i # j /\ ~comparable(prompts[i].timestamp, prompts[j].timestamp)

\* where a record goes in a list already in descending order: behind every
\* record that is not less than it (list.sort is stable, also with reverse)
RECURSIVE insert_desc(_, _)
insert_desc(x, sorted) ==
    IF sorted = << >> THEN <<x>>
    ELSE IF py_lt(Head(sorted).timestamp, x.timestamp) THEN <<x>> \o sorted
    ELSE <<Head(sorted)>> \o insert_desc(x, Tail(sorted))

\* the sort with reverse=True left out: ascending, stable
RECURSIVE insert_asc(_, _)
insert_asc(x, sorted) ==
    IF sorted = << >> THEN <<x>>
    ELSE IF py_lt(x.timestamp, Head(sorted).timestamp) THEN <<x>> \o sorted
    ELSE <<Head(sorted)>> \o insert_asc(x, Tail(sorted))

RECURSIVE sort_prompts_ascending(_)
sort_prompts_ascending(prompts) ==
    IF prompts = << >> THEN << >>
    ELSE insert_asc(prompts[Len(prompts)],
                    sort_prompts_ascending(SubSeq(prompts, 1, Len(prompts) - 1)))

\* line 244: all_prompts.sort(key=lambda x: x['timestamp'], reverse=True)
RECURSIVE sort_prompts(_)
sort_prompts(prompts) ==
    IF prompts = << >> THEN << >>
    ELSE insert_desc(prompts[Len(prompts)],
                     sort_prompts(SubSeq(prompts, 1, Len(prompts) - 1)))

\* the decimal digits of a natural number
RECURSIVE digits(_)
digits(n) == IF n < 10 THEN <<48 + n>> ELSE digits(n \div 10) \o <<48 + (n % 10)>>

\* str(x), as an f-string formats a value
py_str(x) ==
    CASE x.t = "str"  -> x.v
      [] x.t = "int"  -> digits(x.v[1])
      [] x.t = "bool" -> IF x.v[1] = 1 THEN <<84, 114, 117, 101>>
                                       ELSE <<70, 97, 108, 115, 101>>
      [] OTHER        -> <<78, 111, 110, 101>>

\* json.dumps(x, indent=2) of a scalar
json_dumps(x) ==
    CASE x.t = "str"  -> <<34>> \o x.v \o <<34>>
      [] x.t = "int"  -> digits(x.v[1])
      [] x.t = "bool" -> IF x.v[1] = 1 THEN <<116, 114, 117, 101>>
                                       ELSE <<102, 97, 108, 115, 101>>
      [] OTHER        -> <<110, 117, 108, 108>>

\* lines 182-183: one "key: value" line per key of raw_data
raw_lines(obj) ==
    (IF obj.text.t # "absent" THEN <<[key |-> "text", dump |-> json_dumps(obj.text)]>> ELSE << >>)
    \o (IF obj.commandType.t # "absent"
        THEN <<[key |-> "commandType", dump |-> json_dumps(obj.commandType)]>> ELSE << >>)
    \o (IF obj.timestamp.t # "absent"
        THEN <<[key |-> "timestamp", dump |-> json_dumps(obj.timestamp)]>> ELSE << >>)

\* lines 174-185: the block written for one record; of is the identity of the
\* record's raw_data, kept to tell equal-looking blocks apart
render_block(prompt) ==
    [timestamp    |-> py_str(prompt.timestamp),
     command_type |-> py_str(prompt.command_type),
     content      |-> py_str(prompt.content),
     raw          |-> raw_lines(prompt.raw_data.obj),
     of           |-> prompt.raw_data.id]

\* the output file as the run leaves it: whether open(output_file, 'w') went
\* through (the file was created or truncated), whether the header is in it,
\* and the blocks in it
Untouched == [opened |-> FALSE, header |-> FALSE, blocks |-> << >>]

\* the write with the IOError handler returning True
write_prompts_to_log_swallows(prompts, io) ==
    IF prompts = << >> THEN [ret |-> FALSE, file |-> Untouched]
    ELSE IF ~io.open THEN [ret |-> TRUE, file |-> Untouched]
    ELSE LET n == IF io.fail > Len(prompts) THEN Len(prompts)
                  ELSE IF io.fail = 0 THEN 0 ELSE io.fail - 1
         IN  [ret  |-> TRUE,
              file |-> [opened |-> TRUE, header |-> io.fail > 0,
                        blocks |-> [j \in 1..n |-> render_block(prompts[j])]]]

\* lines 162-189.  io tells what the I/O does: io.open is whether open()
\* succeeds, io.fail the write that raises IOError: 0 a write of the header,
\* j a write of block j, anything beyond the last block none
write_prompts_to_log(prompts, io) ==
    IF prompts = << >> THEN [ret |-> FALSE, file |-> Untouched]
    ELSE IF ~io.open THEN [ret |-> FALSE, file |-> Untouched]
    ELSE LET n == IF io.fail > Len(prompts) THEN Len(prompts)
                  ELSE IF io.fail = 0 THEN 0 ELSE io.fail - 1
         IN  [ret  |-> io.fail > Len(prompts),
              file |-> [opened |-> TRUE, header |-> io.fail > 0,
                        blocks |-> [j \in 1..n |-> render_block(prompts[j])]]]

\* ------------------------------------------------------------------- inputs
Systems == {"Linux"}

user_dir(sys) == base_paths(sys)[1] \o <<"Cursor", "User">>

\* the files that may exist: the default store file, and a store and a text
\* file in a default directory
Universe(sys) ==
    { user_dir(sys) \o <<"state.vscdb">>,
      user_dir(sys) \o <<"globalStorage", "x.db">>,
      user_dir(sys) \o <<"globalStorage", "notes.txt">> }

\* the filesystems of the runs checked: where there is a store in the default
\* directory there is the text file too
FsChoices(sys) ==
    {S \in SUBSET Universe(sys) :
        user_dir(sys) \o <<"globalStorage", "x.db">> \in S
            => user_dir(sys) \o <<"globalStorage", "notes.txt">> \in S}

\* values of CURSOR_STORAGE_PATH: unset, and, where it exists, a directory
\* that is a default path too
Customs(sys, S) ==
    { << >> }
    \cup (IF user_dir(sys) \o <<"globalStorage", "x.db">> \in S
          THEN { user_dir(sys) \o <<"globalStorage">> }
          ELSE {})

\* what a run has learnt of a store: whether it opens, whether the query
\* on it succeeds, how many rows it returns, and the rows read so far
Unread == [open |-> "unknown", query |-> "unknown", nrows |-> 0, rows |-> << >>]

\* array elements of the stores of a run: prompts with no timestamp, with
\* "1" or null for it ("1" is after the clock's "01" in lexicographic order
\* and before it by length), a prompt whose text is a space and one whose
\* text is null
MainElems ==
    { Prompt(JStr(<<97>>), Absent, ts) :
          ts \in {Absent, JNull, JStr(<<49>>)} }
    \cup { Prompt(JStr(<<32>>), Absent, Absent), Prompt(JNull, Absent, Absent) }

Arrays(elems, lens) == UNION {[1..n -> elems] : n \in lens}

RECURSIVE SeqSum(_)
SeqSum(s) == IF s = << >> THEN 0 ELSE Head(s) + SeqSum(Tail(s))

ItemsIn(store) == SeqSum([r \in 1..Len(store.rows) |-> Len(store.rows[r].items)])

RECURSIVE ItemsOf(_, _)
ItemsOf(d, S) ==
    IF S = {} THEN 0
    ELSE LET f == CHOOSE g \in S : TRUE IN ItemsIn(d[f]) + ItemsOf(d, S \ {f})

ItemsOn(d) == ItemsOf(d, DOMAIN d)

RECURSIVE RowsOf(_, _)
RowsOf(d, S) ==
    IF S = {} THEN 0
    ELSE LET f == CHOOSE g \in S : TRUE IN d[f].nrows + RowsOf(d, S \ {f})

RowsOn(d) == RowsOf(d, DOMAIN d)

\* whether the loop of lines 141-156 takes the record's time from the clock
reads_clock(prompt) ==
    /\ prompt.obj /\ prompt.text.t = "str" /\ strip(prompt.text.v) # << >>
    /\ prompt.timestamp.t = "absent"

\* clock readings for the elements of an array, taken in processing order
\* (the last element first), none before c and none before the one before
\* it; where the reading is not used it is the reading before it
Readings(c, items) ==
    LET n == Len(items)
        before(nows, j) == IF j = n THEN c ELSE nows[j + 1]
    IN  {nows \in [1..n -> c..MaxClock] :
            \A j \in 1..n : /\ before(nows, j) <= nows[j]
                            /\ ~reads_clock(items[j]) => nows[j] = before(nows, j)}

\* --------------------------------------------------------------------- state
VARIABLES
    system, fs, custom_path,     \* platform.system(), the files, the environment
    disk,                        \* what has been read of each store
    pc, outcome,                 \* position of the run, what it printed last
    paths, pi, walk, full_path,  \* find_cursor_dbs: paths, position, files left
    db_files, di,                \* main: the stores and the position in them
    new_conn, conn, cursor,      \* connection just returned; main's variables
    open_conns, nconn,           \* connections not yet closed; how many made
    ri, all_prompts, clock,      \* row position, records, capture clock
    file, wrote,                 \* the output file; what the write returned
    value, ret                   \* argument and result of one extraction

vars == <<system, fs, custom_path, disk, pc, outcome, paths, pi, walk, full_path,
          db_files, di, new_conn, conn, cursor, open_conns, nconn, ri,
          all_prompts, clock, file, wrote, value, ret>>

env_vars  == <<system, fs, custom_path>>
scan_vars == <<paths, pi, walk, full_path>>
out_vars  == <<file, wrote>>
call_vars == <<value, ret>>

NoRet == [exc |-> "none", prompts |-> << >>]

Idle ==
    /\ disk = [f \in Universe(system) |-> Unread]
    /\ outcome = "none"
    /\ paths = << >> /\ pi = 1 /\ walk = {} /\ full_path = << >>
    /\ db_files = << >> /\ di = 1
    /\ new_conn = 0 /\ conn = 0 /\ cursor = 0 /\ open_conns = {} /\ nconn = 0
    /\ ri = 1 /\ all_prompts = << >> /\ clock = 0
    /\ file = Untouched /\ wrote = FALSE
    /\ ret = NoRet

Init ==
    /\ system \in Systems
    /\ fs \in FsChoices(system)
    /\ custom_path \in Customs(system, fs)
    /\ pc = "start"
    /\ value = SqlNull
    /\ Idle

\* a connection is closed when the last reference to it goes (the sqlite3
\* connection context manager commits or rolls back; it does not close)
Live(conns, refs) == {c \in conns : c.id \in refs}

\* row values of the stores of a run, with arrays of at most room elements
MainValues(room) ==
    {SqlNull, NotJson} \cup {JsonArray(a) : a \in Arrays(MainElems, 0..room)}

Min(a, b) == IF a < b THEN a ELSE b

\* what sqlite3.connect(f) can do: a store read before behaves as it did
OpenOutcomes(f) == IF disk[f].open = "unknown" THEN {"ok", "fail"} ELSE {disk[f].open}

\* what the fixed-key query can do on f, and the number of rows it returns
QueryOutcomes(f) ==
    IF disk[f].query = "unknown"
    THEN {[query |-> "error", nrows |-> 0]} \cup 
             {[query |-> "ok", nrows |-> n] : n \in 0..(MaxRows - RowsOn(disk))}
    ELSE {[query |-> disk[f].query, nrows |-> disk[f].nrows]}

\* the value of row r of f: as read before, else any value the disk has room for
RowValues(f, r) ==
    IF r <= Len(disk[f].rows) THEN {disk[f].rows[r]}
    ELSE MainValues(Min(MaxElems, MaxItems - ItemsOn(disk)))

\* -------------------------------------------------- find_cursor_dbs, 77-95
\* line 80: the call of get_cursor_storage_paths
GetPaths ==
    /\ pc = "start"
    /\ paths' = get_cursor_storage_paths(fs, system, custom_path)
    /\ pc' = "scan"
    /\ UNCHANGED <<env_vars, disk, outcome, pi, walk, full_path, db_files, di,
                   new_conn, conn, cursor, open_conns, nconn, ri, all_prompts,
                   clock, out_vars, call_vars>>

\* lines 81-82: a path that is a file is taken as it is
ScanFile ==
    /\ pc = "scan" /\ pi <= Len(paths)
    /\ is_file(fs, paths[pi])
    /\ db_files' = Append(db_files, paths[pi])
    /\ pi' = pi + 1
    /\ UNCHANGED <<env_vars, disk, pc, outcome, paths, walk, full_path, di,
                   new_conn, conn, cursor, open_conns, nconn, ri, all_prompts,
                   clock, out_vars, call_vars>>

\* lines 83-86: a directory is walked
ScanDir ==
    /\ pc = "scan" /\ pi <= Len(paths)
    /\ ~is_file(fs, paths[pi])
    /\ walk' = walk_db_files(fs, paths[pi])
    /\ pc' = "walk"
    /\ UNCHANGED <<env_vars, disk, outcome, paths, pi, full_path, db_files, di,
                   new_conn, conn, cursor, open_conns, nconn, ri, all_prompts,
                   clock, out_vars, call_vars>>

\* line 89: sqlite3.connect(full_path) returns a connection; os.walk yields
\* the files in no particular order
WalkConnect ==
    /\ pc = "walk"
    /\ \E f \in walk :
        /\ "ok" \in OpenOutcomes(f)
        /\ disk' = [disk EXCEPT ![f].open = "ok"]
        /\ full_path' = f
        /\ nconn' = nconn + 1
        /\ new_conn' = nconn + 1
        /\ open_conns' = open_conns \cup {[id |-> nconn + 1, path |-> f]}
    /\ pc' = "validate"
    /\ UNCHANGED <<env_vars, outcome, paths, pi, walk, db_files, di, conn, cursor,
                   ri, all_prompts, clock, out_vars, call_vars>>

\* lines 89, 92-93: sqlite3.connect(full_path) raises sqlite3.Error
WalkConnectFails ==
    /\ pc = "walk"
    /\ \E f \in walk :
        /\ "fail" \in OpenOutcomes(f)
        /\ disk' = [disk EXCEPT ![f].open = "fail"]
        /\ walk' = walk \ {f}
    /\ UNCHANGED <<env_vars, pc, outcome, paths, pi, full_path, db_files, di,
                   new_conn, conn, cursor, open_conns, nconn, ri, all_prompts,
                   clock, out_vars, call_vars>>

\* lines 89-91: the connection is bound to conn (the one conn named before
\* loses its last reference), SELECT 1 runs, the path is appended
WalkValidate ==
    /\ pc = "validate"
    /\ conn' = new_conn
    /\ new_conn' = 0
    /\ open_conns' = Live(open_conns, {new_conn})
    /\ db_files' = Append(db_files, full_path)
    /\ walk' = walk \ {full_path}
    /\ pc' = "walk"
    /\ UNCHANGED <<env_vars, disk, outcome, paths, pi, full_path, di, cursor,
                   nconn, ri, all_prompts, clock, out_vars, call_vars>>

\* line 84: the walk of this path is over
WalkDone ==
    /\ pc = "walk" /\ walk = {}
    /\ pi' = pi + 1
    /\ pc' = "scan"
    /\ UNCHANGED <<env_vars, disk, outcome, paths, walk, full_path, db_files, di,
                   new_conn, conn, cursor, open_conns, nconn, ri, all_prompts,
                   clock, out_vars, call_vars>>

\* ------------------------------------------------------------ main, 191-253
\* lines 95, 212-215: find_cursor_dbs returns (its conn goes with its frame)
\* and there is no store
NoDatabases ==
    /\ pc = "scan" /\ pi > Len(paths)
    /\ db_files = << >>
    /\ conn' = 0
    /\ open_conns' = {}
    /\ outcome' = "No Cursor databases found"
    /\ pc' = "done"
    /\ UNCHANGED <<env_vars, disk, scan_vars, db_files, di, new_conn, cursor,
                   nconn, ri, all_prompts, clock, out_vars, call_vars>>

\* lines 95, 212-221: find_cursor_dbs returns some stores
FoundDatabases ==
    /\ pc = "scan" /\ pi > Len(paths)
    /\ db_files # << >>
    /\ conn' = 0
    /\ open_conns' = {}
    /\ pc' = "connect"
    /\ UNCHANGED <<env_vars, disk, outcome, scan_vars, db_files, di, new_conn,
                   cursor, nconn, ri, all_prompts, clock, out_vars, call_vars>>

\* line 223: sqlite3.connect(db_path) returns a connection
Connect ==
    /\ pc = "connect" /\ di <= Len(db_files)
    /\ "ok" \in OpenOutcomes(db_files[di])
    /\ disk' = [disk EXCEPT ![db_files[di]].open = "ok"]
    /\ nconn' = nconn + 1
    /\ new_conn' = nconn + 1
    /\ open_conns' = open_conns \cup {[id |-> nconn + 1, path |-> db_files[di]]}
    /\ pc' = "query"
    /\ UNCHANGED <<env_vars, outcome, scan_vars, db_files, di, conn, cursor, ri,
                   all_prompts, clock, out_vars, call_vars>>

\* lines 223, 237-239: sqlite3.connect(db_path) raises sqlite3.Error
ConnectFails ==
    /\ pc = "connect" /\ di <= Len(db_files)
    /\ "fail" \in OpenOutcomes(db_files[di])
    /\ disk' = [disk EXCEPT ![db_files[di]].open = "fail"]
    /\ di' = di + 1
    /\ UNCHANGED <<env_vars, pc, outcome, scan_vars, db_files, new_conn, conn,
                   cursor, open_conns, nconn, ri, all_prompts, clock, out_vars,
                   call_vars>>

\* lines 223-226: conn and cursor are bound to the new connection (the one
\* they named before loses its last reference) and the query returns rows
Query ==
    /\ pc = "query"
    /\ \E q \in QueryOutcomes(db_files[di]) :
        /\ q.query = "ok"
        /\ disk' = [disk EXCEPT ![db_files[di]].query = "ok",
                                ![db_files[di]].nrows = q.nrows]
    /\ conn' = new_conn
    /\ cursor' = new_conn
    /\ new_conn' = 0
    /\ open_conns' = Live(open_conns, {new_conn})
    /\ ri' = 1
    /\ pc' = "rows"
    /\ UNCHANGED <<env_vars, outcome, scan_vars, db_files, di, nconn,
                   all_prompts, clock, out_vars, call_vars>>

\* lines 223-226, 237-239: the query raises sqlite3.Error; the store is left
QueryFails ==
    /\ pc = "query"
    /\ \E q \in QueryOutcomes(db_files[di]) :
        /\ q.query = "error"
        /\ disk' = [disk EXCEPT ![db_files[di]].query = "error"]
    /\ conn' = new_conn
    /\ cursor' = new_conn
    /\ new_conn' = 0
    /\ open_conns' = Live(open_conns, {new_conn})
    /\ di' = di + 1
    /\ pc' = "connect"
    /\ UNCHANGED <<env_vars, outcome, scan_vars, db_files, nconn, ri,
                   all_prompts, clock, out_vars, call_vars>>

\* lines 231-236: one row: its records are appended to all_prompts
Row ==
    /\ pc = "rows" /\ ri <= disk[db_files[di]].nrows
    /\ \E v \in RowValues(db_files[di], ri) :
       \E nows \in Readings(clock, v.items) :
        LET r == extract_prompts_from_value(v, nows, <<di, ri>>)
        IN  /\ r.exc = "none"
            /\ disk' = [disk EXCEPT ![db_files[di]].rows =
                            IF ri <= Len(@) THEN @ ELSE Append(@, v)]
            /\ all_prompts' = all_prompts \o r.prompts
            /\ clock' = IF nows = << >> THEN clock ELSE nows[1]
    /\ ri' = ri + 1
    /\ UNCHANGED <<env_vars, pc, outcome, scan_vars, db_files, di, new_conn, conn,
                   cursor, open_conns, nconn, out_vars, call_vars>>

\* lines 234, 252-253: extract_prompts_from_value raises an exception that is
\* no sqlite3.Error; main's last handler prints it and main returns
RowRaises ==
    /\ pc = "rows" /\ ri <= disk[db_files[di]].nrows
    /\ \E v \in RowValues(db_files[di], ri) :
       \E nows \in Readings(clock, v.items) :
        LET r == extract_prompts_from_value(v, nows, <<di, ri>>)
        IN  /\ r.exc # "none"
            /\ disk' = [disk EXCEPT ![db_files[di]].rows =
                            IF ri <= Len(@) THEN @ ELSE Append(@, v)]
            /\ outcome' = "Error"
    /\ conn' = 0 /\ cursor' = 0
    /\ open_conns' = {}
    /\ pc' = "done"
    /\ UNCHANGED <<env_vars, scan_vars, db_files, di, new_conn, nconn, ri,
                   all_prompts, clock, out_vars, call_vars>>

\* line 231: the rows of this store are done; the with block commits
RowsDone ==
    /\ pc = "rows" /\ ri > disk[db_files[di]].nrows
    /\ di' = di + 1
    /\ pc' = "connect"
    /\ UNCHANGED <<env_vars, disk, outcome, scan_vars, db_files, new_conn, conn,
                   cursor, open_conns, nconn, ri, all_prompts, clock, out_vars,
                   call_vars>>

\* lines 241-244: every store is done; the records are sorted
Sort ==
    /\ pc = "connect" /\ di > Len(db_files)
    /\ ~sort_raises(all_prompts)
    /\ all_prompts' = sort_prompts(all_prompts)
    /\ pc' = "write"
    /\ UNCHANGED <<env_vars, disk, outcome, scan_vars, db_files, di, new_conn,
                   conn, cursor, open_conns, nconn, ri, clock, out_vars, call_vars>>

\* lines 244, 252-253: the sort raises TypeError
SortRaises ==
    /\ pc = "connect" /\ di > Len(db_files)
    /\ sort_raises(all_prompts)
    /\ outcome' = "Error"
    /\ conn' = 0 /\ cursor' = 0
    /\ open_conns' = {}
    /\ pc' = "done"
    /\ UNCHANGED <<env_vars, disk, scan_vars, db_files, di, new_conn, nconn, ri,
                   all_prompts, clock, out_vars, call_vars>>

\* lines 247-250: the report is written and main says how it went
Write ==
    /\ pc = "write"
    /\ \E io \in [open : BOOLEAN, fail : {Len(all_prompts), Len(all_prompts) + 1}] :
        LET r == write_prompts_to_log(all_prompts, io)
        IN  /\ file' = r.file
            /\ wrote' = r.ret
            /\ outcome' = IF r.ret THEN "Successfully wrote" ELSE "No prompts found"
    /\ conn' = 0 /\ cursor' = 0
    /\ open_conns' = {}
    /\ pc' = "done"
    /\ UNCHANGED <<env_vars, disk, scan_vars, db_files, di, new_conn, nconn, ri,
                   all_prompts, clock, call_vars>>

Next ==
    \/ GetPaths \/ ScanFile \/ ScanDir
    \/ WalkConnect \/ WalkConnectFails \/ WalkValidate \/ WalkDone
    \/ NoDatabases \/ FoundDatabases
    \/ Connect \/ ConnectFails \/ Query \/ QueryFails
    \/ Row \/ RowRaises \/ RowsDone
    \/ Sort \/ SortRaises \/ Write

Spec == Init /\ [][Next]_vars

\* ------------------------------------------ one call of the extraction alone
\* the values of the text, commandType and timestamp keys tried
TextValues ==
    {Absent, JNull, JInt(5), JStr(<< >>), JStr(<<9, 32>>),
     JStr(<<97>>), JStr(<<32, 97, 32>>)}

CommandTypeValues ==
    {Absent, JNull, JBool(TRUE), JBool(FALSE), JStr(s_custom)}
    \cup {JInt(n) : n \in {0, 1, 10, 11}}

TimestampValues == {Absent, JNull, JStr(<<50>>)}

\* array elements: a non-object entry, and prompts that vary one key each
\* (those that vary commandType carry a timestamp of their own)
ExtractElems ==
    {NonObject}
    \cup {Prompt(tx, Absent, Absent) : tx \in TextValues}
    \cup {Prompt(JStr(<<97>>), ct, JStr(<<50>>)) : ct \in CommandTypeValues}
    \cup {Prompt(JStr(<<97>>), Absent, ts) : ts \in TimestampValues}

ExtractValues ==
    {SqlNull, SqlInteger, NotJson, JsonObject}
    \cup {JsonArray(a) : a \in Arrays(ExtractElems, 0..MaxElems)}

InitExtract ==
    /\ system \in Systems
    /\ fs = {}
    /\ custom_path = << >>
    /\ pc = "extract"
    /\ value \in ExtractValues
    /\ Idle

\* lines 133-160: extract_prompts_from_value(value, ...) is called and returns
\* or raises
ExtractCall ==
    /\ pc = "extract"
    /\ \E nows \in Readings(clock, value.items) :
        /\ ret' = extract_prompts_from_value(value, nows, <<1, 1>>)
        /\ clock' = IF nows = << >> THEN clock ELSE nows[1]
    /\ pc' = "extracted"
    /\ UNCHANGED <<env_vars, disk, outcome, scan_vars, db_files, di, new_conn,
                   conn, cursor, open_conns, nconn, ri, all_prompts, out_vars,
                   value>>

NextExtract == ExtractCall

SpecExtract == InitExtract /\ [][NextExtract]_vars

\* ==================================================================== claims
\* a prompt object whose text is a string with a character that is no space
WellFormed(e) ==
    e.obj /\ e.text.t = "str" /\ \E i \in 1..Len(e.text.v) : ~isspace(e.text.v[i])

\* the three kinds of malformed entry: a non-object entry, a mapping with no
\* text, a mapping whose text is empty or only spaces
Malformed(e) ==
    \/ ~e.obj
    \/ e.text.t = "absent"
    \/ e.text.t = "str" /\ \A i \in 1..Len(e.text.v) : isspace(e.text.v[i])

\* the index in its array of the element a record was built from
IndexOf(rec) == rec.raw_data.id[3]

\* C1: extract_prompts_from_value, given an array of well-formed prompt
\* objects interleaved with malformed entries (no text, blank text, or a
\* non-object entry), returns exactly one record per well-formed element, and
\* the record of a later element precedes the record of an earlier one.
C1_DecodeTolerance ==
    (/\ pc = "extracted"
     /\ value.sql = "TEXT" /\ value.doc = "array"
     /\ \A k \in 1..Len(value.items) :
            WellFormed(value.items[k]) \/ Malformed(value.items[k]))
    => /\ ret.exc = "none"
       /\ Len(ret.prompts) =
              Cardinality({k \in 1..Len(value.items) : WellFormed(value.items[k])})
       /\ \A i \in 1..Len(ret.prompts) :
              /\ IndexOf(ret.prompts[i]) \in 1..Len(value.items)
              /\ WellFormed(value.items[IndexOf(ret.prompts[i])])
              /\ ret.prompts[i].raw_data.obj = value.items[IndexOf(ret.prompts[i])]
              /\ ret.prompts[i].content = value.items[IndexOf(ret.prompts[i])].text
       /\ \A i, j \in 1..Len(ret.prompts) :
              i < j => IndexOf(ret.prompts[i]) > IndexOf(ret.prompts[j])

\* C1 witness: a call returned two records from an array of three elements
\* with a malformed entry between two well-formed ones
C1_Witness ==
    /\ pc = "extracted"
    /\ value.doc = "array" /\ Len(value.items) = 3
    /\ WellFormed(value.items[1]) /\ WellFormed(value.items[3])
    /\ Malformed(value.items[2])
    /\ Len(ret.prompts) = 2

\* whether the run was ended by an exception caught at line 252
Aborted == pc = "done" /\ outcome = "Error"

\* C2: a row whose value is malformed in any way (not JSON, not an array, a
\* null value, a text or timestamp of an unexpected type) never aborts the
\* run: the run ends with the report attempted, not with the last handler.
C2_MalformedRowNeverAborts == ~Aborted

\* C2 case: the run was ended at a row, with records of an earlier row
\* extracted and no report written
C2_Witness ==
    /\ Aborted
    /\ di <= Len(db_files)
    /\ all_prompts # << >>
    /\ file = Untouched

\* the store opened, was queried, and every row of it has been read
FullyRead(f) == disk[f].query = "ok" /\ Len(disk[f].rows) = disk[f].nrows

\* a store whose open or query raises a database error, or whose values
\* under the key are text that is not JSON
Failing(f) ==
    \/ disk[f].open = "fail"
    \/ disk[f].query = "error"
    \/ /\ FullyRead(f) /\ disk[f].nrows > 0
       /\ \A r \in 1..Len(disk[f].rows) : disk[f].rows[r] = NotJson

\* the elements of pass i over the stores that are well-formed prompts
ExpectedOf(i) ==
    LET rows == disk[db_files[i]].rows
    IN  {id \in {i} \X (1..Len(rows)) \X (1..MaxElems) :
            /\ id[3] <= Len(rows[id[2]].items)
            /\ WellFormed(rows[id[2]].items[id[3]])}

RecordIds(prompts) == {prompts[j].raw_data.id : j \in 1..Len(prompts)}
BlockIds(blocks)   == {blocks[j].of : j \in 1..Len(blocks)}

\* C3: a store whose open or query raises a database error, or whose value
\* under the key is not JSON, contributes no record; in a run that met such
\* a store every store after it is processed, and the records of the stores
\* before it are kept and are in the report that is written.
C3_FailingStoreIsSkipped ==
    /\ \A i \in 1..Len(db_files) :
           Failing(db_files[i])
           => \A id \in RecordIds(all_prompts) \cup BlockIds(file.blocks) : id[1] # i
    /\ (pc = "done" /\ \E j \in 1..Len(db_files) : Failing(db_files[j]))
       => /\ ~Aborted
          /\ di = Len(db_files) + 1
          /\ \A i \in 1..Len(db_files) :
                 /\ ExpectedOf(i) = {id \in RecordIds(all_prompts) : id[1] = i}
                 /\ wrote => ExpectedOf(i) = {id \in BlockIds(file.blocks) : id[1] = i}

\* C3 case: the run was ended after a failing store was passed, with the
\* records of a store before the failing store extracted and no report
C3_Witness ==
    /\ Aborted
    /\ \E i, j \in 1..Len(db_files) :
        /\ i < j /\ j < di
        /\ Failing(db_files[j])
        /\ \E a \in RecordIds(all_prompts) : a[1] = i
    /\ file = Untouched

\* the handling of a failing store itself: the run is never ended at it, the
\* records of the stores read before it are kept, and a report that is
\* written holds the records of every store that is not failing
FailingStoreHandled ==
    /\ (Aborted /\ di <= Len(db_files)) => ~Failing(db_files[di])
    /\ pc \in {"connect", "query", "rows", "write"}
       => \A i \in 1..Len(db_files) :
              i < di => ExpectedOf(i) = {id \in RecordIds(all_prompts) : id[1] = i}
    /\ (pc = "done" /\ wrote)
       => /\ di = Len(db_files) + 1
          /\ \A i \in 1..Len(db_files) :
                 ExpectedOf(i) = {id \in BlockIds(file.blocks) : id[1] = i}

\* a is not less than b in lexicographic order of code points
LexGeq(a, b) ==
    \/ /\ Len(b) <= Len(a)
       /\ \A n \in 1..Len(b) : a[n] = b[n]
    \/ \E n \in 1..Len(a) :
        /\ n <= Len(b)
        /\ \A m \in 1..(n - 1) : a[m] = b[m]
        /\ a[n] > b[n]

\* C4: the report lists the records of all stores in descending
\* lexicographic order of their timestamp strings, and holds exactly the
\* extracted records: one block per well-formed element read, none added,
\* dropped or merged.
C4_ReportIsSortedDescending ==
    (pc = "done" /\ wrote)
    => /\ \A j \in 1..(Len(file.blocks) - 1) :
              LexGeq(file.blocks[j].timestamp, file.blocks[j + 1].timestamp)
       /\ BlockIds(file.blocks) = UNION {ExpectedOf(i) : i \in 1..Len(db_files)}
       /\ Cardinality(BlockIds(file.blocks)) = Len(file.blocks)

\* C4 witness: a report of three blocks or more, from two passes or more,
\* whose first timestamp differs from its last
C4_Witness ==
    /\ pc = "done" /\ wrote
    /\ Len(file.blocks) >= 3
    /\ \E a, b \in BlockIds(file.blocks) : a[1] # b[1]
    /\ file.blocks[1].timestamp # file.blocks[Len(file.blocks)].timestamp

\* C5: a record's command_type is the table's label when the element's
\* commandType is an integer in 1..10, "unknown" when the element has no
\* commandType, and the element's commandType unchanged otherwise.
C5_CommandTypeResolution ==
    (pc = "extracted" /\ ret.exc = "none")
    => \A i \in 1..Len(ret.prompts) :
           LET given == ret.prompts[i].raw_data.obj.commandType
               got   == ret.prompts[i].command_type
           IN  IF given.t = "absent" THEN got = JStr(s_unknown)
               ELSE IF given.t = "int" /\ given.v[1] \in 1..10
               THEN got = JStr(COMMAND_TYPES[given.v[1]])
               ELSE got = given

\* C5 case: the record of an element whose commandType is true has the label
\* of code 1
C5_Witness ==
    /\ pc = "extracted" /\ ret.exc = "none"
    /\ \E i \in 1..Len(ret.prompts) :
        /\ ret.prompts[i].raw_data.obj.commandType = JBool(TRUE)
        /\ ret.prompts[i].command_type = JStr(s_chat)

\* C6: the list of stores find_cursor_dbs returns holds no store twice.
C6_NoStoreTwice ==
    pc \in {"connect", "query", "rows", "write", "done"}
    => \A i, j \in 1..Len(db_files) : i # j => db_files[i] # db_files[j]

\* C6 case: the report holds the record of one element of one store twice,
\* from two passes over the store
C6_Witness ==
    /\ pc = "done" /\ wrote
    /\ \E a, b \in BlockIds(file.blocks) :
        /\ a[1] # b[1] /\ a[2] = b[2] /\ a[3] = b[3]
        /\ db_files[a[1]] = db_files[b[1]]

\* C7: "nothing found" is printed only when no store was found or no record
\* was extracted; a failed write of extracted records is not reported so.
C7_NothingFoundOnlyWhenNothing ==
    (pc = "done" /\ outcome \in {"No Cursor databases found", "No prompts found"})
    => (db_files = << >> \/ all_prompts = << >>)

\* C7 case: records were extracted, the write failed, and the run printed
\* "No prompts found"
C7_Witness ==
    /\ pc = "done" /\ outcome = "No prompts found"
    /\ all_prompts # << >>
    /\ ~wrote

\* whether the run reached the call of write_prompts_to_log
WriteCalled == pc = "done" /\ outcome \in {"Successfully wrote", "No prompts found"}

\* whether the file holds the header and the block of every record
FullyWritten ==
    /\ file.opened /\ file.header
    /\ file.blocks = [j \in 1..Len(all_prompts) |-> render_block(all_prompts[j])]

\* C8: write_prompts_to_log with no record returns failure and does not open
\* the file; with records it returns success exactly when the file was opened
\* and fully written, and an I/O error is a failure result, not an exception.
C8_WriteResult ==
    WriteCalled
    => /\ all_prompts = << >> => (~wrote /\ file = Untouched)
       /\ all_prompts # << >> => (wrote <=> FullyWritten)

\* C8 witness: a write of records that opened the file and failed before the
\* last block was in it
C8_Witness ==
    /\ WriteCalled
    /\ all_prompts # << >>
    /\ file.opened /\ Len(file.blocks) < Len(all_prompts)
    /\ ~wrote

\* C9: at most one store connection is open at any time: the connection of a
\* store is released before the connection of the next store is opened.
C9_OneConnectionAtATime == Cardinality(open_conns) <= 1

\* C9 case: the query of a store runs while the connection of the store
\* before it is open
C9_Witness ==
    /\ pc = "query" /\ di > 1
    /\ Cardinality(open_conns) = 2

\* the position in the report of the block of the element with this identity
PositionOf(id) == CHOOSE j \in 1..Len(file.blocks) : file.blocks[j].of = id

\* C10: when two elements of one stored array both lack a timestamp and both
\* yield records, the report lists the record of the later element before the
\* record of the earlier one.
C10_SubstitutedTimestampOrder ==
    (pc = "done" /\ wrote)
    => \A a, b \in BlockIds(file.blocks) :
           (/\ a[1] = b[1] /\ a[2] = b[2] /\ a[3] < b[3]
            /\ \A id \in {a, b} :
                 disk[db_files[id[1]]].rows[id[2]].items[id[3]].timestamp.t = "absent")
           => PositionOf(b) < PositionOf(a)

\* C10 case: a report in which the block of an earlier element is before the
\* block of a later element of the same array, both with the capture time
C10_Witness ==
    /\ pc = "done" /\ wrote
    /\ \E a, b \in BlockIds(file.blocks) :
        /\ a[1] = b[1] /\ a[2] = b[2] /\ a[3] < b[3]
        /\ \A id \in {a, b} :
             disk[db_files[id[1]]].rows[id[2]].items[id[3]].timestamp.t = "absent"
        /\ PositionOf(a) < PositionOf(b)

====
